---- MODULE Spec2Model ----
(***************************************************************************)
(* A model of the guided super-resolution network GSRNet (src/model.py)   *)
(* and of the evaluation script that loads and runs it (src/eval.py).     *)
(* Tensors are modelled by their shapes: every property checked here is a *)
(* property of shapes, indices, spatial offsets and dictionary keys.      *)
(*                                                                         *)
(* Four specifications share the variables:                               *)
(*   SpecLoad  load_model's checkpoint key mapping       (eval.py 21-28)  *)
(*   SpecNet   GSRNet.__init__ and GSRNet.forward        (model.py)       *)
(*   SpecAttn  WindowCrossAttention.__init__ / forward   (model.py)       *)
(*   SpecEval  the evaluation loop                       (eval.py 38-57)  *)
(***************************************************************************)
EXTENDS Integers, Sequences, FiniteSets, TLC

VARIABLES
    \* load_model
    checkpoint, new_state_dict, loadIdx, loadPc,
    \* GSRNet
    cfg, net, pc, raised, i, original_x, x, y, res_list, z, block_log, cat_log,
    \* WindowCrossAttention
    unit, call, result,
    \* evaluation loop
    evalN, test_batch_size, idx, pred_raw, metric_log, write_log, evalPc

loadVars == <<checkpoint, new_state_dict, loadIdx, loadPc>>
netVars  == <<cfg, net, pc, raised, i, original_x, x, y, res_list, z, block_log, cat_log>>
attnVars == <<unit, call, result>>
evalVars == <<evalN, test_batch_size, idx, pred_raw, metric_log, write_log, evalPc>>
vars     == <<loadVars, netVars, attnVars, evalVars>>

None == "none"
NoShape == [C |-> 0, H |-> 0, W |-> 0]

Min(a, b) == IF a <= b THEN a ELSE b
Max(a, b) == IF a >= b THEN a ELSE b

\* The values left in the variables a specification does not use.
LoadIdle ==
    /\ checkpoint = <<>> /\ new_state_dict = <<>> /\ loadIdx = 0 /\ loadPc = None
NetIdle ==
    /\ cfg = [status |-> None] /\ net = [status |-> None] /\ pc = None
    /\ raised = None /\ i = 0 /\ original_x = NoShape /\ x = NoShape /\ y = NoShape
    /\ res_list = <<>> /\ z = NoShape /\ block_log = <<>> /\ cat_log = <<>>
AttnIdle ==
    /\ unit = [status |-> None] /\ call = [status |-> None]
    /\ result = [status |-> None]
EvalIdle ==
    /\ evalN = 0 /\ test_batch_size = 0 /\ idx = 0 /\ pred_raw = <<>>
    /\ metric_log = <<>> /\ write_log = <<>> /\ evalPc = None

(***************************************************************************)
(* load_model (src/eval.py 16-31): the checkpoint key mapping.            *)
(*                                                                         *)
(* A parameter name is a sequence of tokens.  The token "module." is the  *)
(* seven-character text the code looks for; the other tokens are pieces   *)
(* of a name that contain no part of it, so that k.startswith("module.")  *)
(* is "the first token is module." and k.replace("module.", "") removes   *)
(* every such token, wherever it stands.                                  *)
(***************************************************************************)
MaxKeyLen  == 2
MaxEntries == 2
NumValues  == 2

ModulePrefix == "module."
Tokens == {ModulePrefix, "conv.", "weight"}
Keys   == UNION {[1..n -> Tokens] : n \in 1..MaxKeyLen}
Values == 1..NumValues

\* A checkpoint is a dict: its items in insertion order, keys distinct.
Checkpoints ==
    {c \in UNION {[1..n -> [k : Keys, v : Values]] : n \in 0..MaxEntries} :
        \A a, b \in 1..Len(c) : a # b => c[a].k # c[b].k}

startswith(k, p) == Len(k) >= 1 /\ k[1] = p

IsNotPrefixToken(t) == t # ModulePrefix
\* str.replace(old, ""): every occurrence of old is removed.
replace(k) == SelectSeq(k, IsNotPrefixToken)

\* new_state_dict[key] = value on a dict kept as a function of its keys.
DictKeys(d) == DOMAIN d
DictSet(d, k, v) == [kk \in (DOMAIN d) \cup {k} |-> IF kk = k THEN v ELSE d[kk]]
EmptyDict == [kk \in {} |-> 0]

\* One iteration of "for k, v in checkpoint.items()" (lines 23-26).
LoadItem(d, item) ==
    IF startswith(item.k, ModulePrefix)
        THEN DictSet(d, replace(item.k), item.v)
        ELSE d

InitLoad ==
    /\ checkpoint \in Checkpoints
    /\ new_state_dict = EmptyDict
    /\ loadIdx = 1
    /\ loadPc = "loop"
    /\ NetIdle /\ AttnIdle /\ EvalIdle

LoadStep ==
    /\ loadPc = "loop"
    /\ loadIdx <= Len(checkpoint)
    /\ new_state_dict' = LoadItem(new_state_dict, checkpoint[loadIdx])
    /\ loadIdx' = loadIdx + 1
    /\ UNCHANGED <<checkpoint, loadPc, netVars, attnVars, evalVars>>

\* Line 28: the dict is handed to model.load_state_dict.
LoadStateDict ==
    /\ loadPc = "loop"
    /\ loadIdx > Len(checkpoint)
    /\ loadPc' = "loaded"
    /\ UNCHANGED <<checkpoint, new_state_dict, loadIdx, netVars, attnVars, evalVars>>

NextLoad == LoadStep \/ LoadStateDict
SpecLoad == InitLoad /\ [][NextLoad]_vars

\* C1: every checkpoint key that starts with "module." reaches load_state_dict
\* with only that leading prefix removed and the same value, and every other
\* key reaches it unchanged with the same value; no entry is discarded.
C1_KeyMapping ==
    loadPc = "loaded" =>
        \A n \in 1..Len(checkpoint) :
            LET k == checkpoint[n].k
                nk == IF startswith(k, ModulePrefix) THEN Tail(k) ELSE k
            IN  /\ nk \in DictKeys(new_state_dict)
                /\ new_state_dict[nk] = checkpoint[n].v

(***************************************************************************)
(* Python list indexing and the exceptions a call can end with.           *)
(***************************************************************************)
\* s[n] of a Python list, n >= 0 or n < 0 (from the end).
PyAt(s, n) == IF n >= 0 THEN s[n + 1] ELSE s[Len(s) + n + 1]
PyInRange(s, n) == IF n >= 0 THEN n < Len(s) ELSE -n <= Len(s)

Ok(v) == [status |-> "ok", raised |-> None, v |-> v]
Raise(e) == [status |-> "raised", raised |-> e, v |-> NoShape]

(***************************************************************************)
(* WindowCrossAttention (src/model.py 9-77)                               *)
(***************************************************************************)
\* Line 36: num_channels // num_heads != num_channels / num_heads raises.
HeadsDivideUnchecked(num_channels, num_heads) == TRUE
HeadsDivide(num_channels, num_heads) ==
    (num_channels \div num_heads) * num_heads = num_channels

WindowCrossAttentionInit(window_size, num_channels, num_heads) ==
    IF ~HeadsDivide(num_channels, num_heads)
        THEN [status |-> "raised", raised |-> "ValueError: heads"]
        ELSE [status |-> "ok", raised |-> None,
              num_window_elements |-> window_size[1] * window_size[2],
              num_channels |-> num_channels,
              num_heads |-> num_heads]

\* A window batch is [B |-> B_, N |-> N, C |-> C].
NoBatch == [B |-> 0, N |-> 0, C |-> 0]

\* Lines 43-46: the shape checks that open forward.
ShapesMatchChannelsOnly(xs, ys) == xs.C = ys.C
ShapesMatch(xs, ys) == xs.B = ys.B /\ xs.C = ys.C /\ xs.N = ys.N

\* Lines 58-59: attn (B_, heads, N, N) += bias (1, heads, Nw, Nw), in place:
\* the bias broadcasts to attn's shape only if Nw is N or 1.
BiasBroadcasts(u, xs) ==
    u.num_window_elements = xs.N \/ u.num_window_elements = 1

\* forward(x, y): the stage names the last step that ran before the call
\* ended ("check": nothing computed; "qkv": the projections; "attn": the
\* scores; "out": the outputs).
WindowCrossAttentionForward(u, xs, ys) ==
    IF ~ShapesMatch(xs, ys)
        THEN [status |-> "raised", raised |-> "ValueError: shape",
              stage |-> "check", out1 |-> NoBatch, out2 |-> NoBatch]
    ELSE IF xs.C # u.num_channels
        THEN [status |-> "raised", raised |-> "ValueError: channels",
              stage |-> "check", out1 |-> NoBatch, out2 |-> NoBatch]
    \* line 49: reshape(B_, N, 3, num_heads, C // num_heads) of B_*N*3*C values
    ELSE IF u.num_heads * (xs.C \div u.num_heads) # xs.C
        THEN [status |-> "raised", raised |-> "RuntimeError: reshape",
              stage |-> "qkv", out1 |-> NoBatch, out2 |-> NoBatch]
    ELSE IF ~BiasBroadcasts(u, xs)
        THEN [status |-> "raised", raised |-> "RuntimeError: broadcast",
              stage |-> "attn", out1 |-> NoBatch, out2 |-> NoBatch]
    ELSE [status |-> "ok", raised |-> None, stage |-> "out",
          out1 |-> [B |-> xs.B, N |-> xs.N, C |-> xs.C],
          out2 |-> [B |-> ys.B, N |-> ys.N, C |-> ys.C]]

(***************************************************************************)
(* utils.window_partition, window_merge, half_window_shift: the module    *)
(* utils is not among the sources; these follow the specification's       *)
(* WindowGeometry (section 4.1).  A feature map is [C, H, W]; off is its  *)
(* cyclic spatial offset against the map the block was given.             *)
(***************************************************************************)
CanPartition(s, window_size) ==
    s.H % window_size[1] = 0 /\ s.W % window_size[2] = 0

window_partition(s, window_size) ==
    [B |-> (s.H \div window_size[1]) * (s.W \div window_size[2]),
     N |-> window_size[1] * window_size[2],
     C |-> s.C]

window_merge(wb, window_size, image_size) ==
    [C |-> wb.C, H |-> image_size[1], W |-> image_size[2]]

\* A cyclic translation by (wh/2, ww/2); forward = FALSE is its inverse.
half_window_shift(off, window_size, image_size, forward) ==
    LET dh == window_size[1] \div 2
        dw == window_size[2] \div 2
    IN  IF forward
            THEN <<(off[1] + dh) % image_size[1], (off[2] + dw) % image_size[2]>>
            ELSE <<(off[1] - dh) % image_size[1], (off[2] - dw) % image_size[2]>>

(***************************************************************************)
(* CrossAttentionBlock (src/model.py 95-130)                              *)
(***************************************************************************)
CrossAttentionBlockInit(window_size, num_channels, num_heads) ==
    LET a1 == WindowCrossAttentionInit(window_size, num_channels, num_heads)
        a2 == WindowCrossAttentionInit(window_size, num_channels, num_heads)
    IN  IF a1.status # "ok" THEN [status |-> "raised", raised |-> a1.raised]
        ELSE IF a2.status # "ok" THEN [status |-> "raised", raised |-> a2.raised]
        ELSE [status |-> "ok", raised |-> None, window_size |-> window_size,
              cross_attention1 |-> a1, cross_attention2 |-> a2]

\* forward(x, y): x and y are feature maps; the result carries the shapes of
\* the two outputs and the offset the block leaves on them.
BlockRaise(e) ==
    [status |-> "raised", raised |-> e, x |-> NoShape, y |-> NoShape, off |-> <<0, 0>>]

CrossAttentionBlockForward(b, xs, ys) ==
    LET ws == b.window_size
        image_size == <<xs.H, xs.W>>
    IN
    \* lines 107-108
    IF ~(CanPartition(xs, ws) /\ CanPartition(ys, ws))
        THEN BlockRaise("ShapeMismatchError: partition")
    ELSE
    LET xw == window_partition(xs, ws)
        yw == window_partition(ys, ws)
        \* lines 110-112 (feed_forward1 keeps the shape)
        r1 == WindowCrossAttentionForward(b.cross_attention1, xw, yw)
    IN
    IF r1.status # "ok" THEN BlockRaise(r1.raised)
    ELSE
    LET \* lines 114-115
        xm == window_merge(r1.out1, ws, image_size)
        ym == window_merge(r1.out2, ws, image_size)
        \* lines 117-118
        off1 == half_window_shift(<<0, 0>>, ws, image_size, FALSE)
        \* lines 120-125
        xw2 == window_partition(xm, ws)
        yw2 == window_partition(ym, ws)
        r2 == WindowCrossAttentionForward(b.cross_attention2, xw2, yw2)
    IN
    IF r2.status # "ok" THEN BlockRaise(r2.raised)
    ELSE
        \* lines 127-130: merged and returned; no shift follows
        [status |-> "ok", raised |-> None,
         x |-> window_merge(r2.out1, ws, image_size),
         y |-> window_merge(r2.out2, ws, image_size),
         off |-> off1]

(***************************************************************************)
(* ConvBlock (src/model.py 132-149) and the torch layers GSRNet uses      *)
(***************************************************************************)
ConvBlock(num_channels_in, num_channels_hidden, num_layers) ==
    [cin |-> num_channels_in, cout |-> num_channels_hidden, num_layers |-> num_layers]

\* Conv2d(cin, cout, 3, 1, 1) and Conv2d(cin, cout, 1, 1, 0) keep H and W
\* and need cin input channels.
ConvForward(layer, s) ==
    IF s.C # layer.cin THEN Raise("RuntimeError: channels")
    ELSE Ok([C |-> layer.cout, H |-> s.H, W |-> s.W])

\* MaxPool2d(2, 2): floor((n - 2) / 2) + 1 = n // 2, an error when that is 0.
PoolOutPadded(n) == (n \div 2) + 1
PoolOut(n) == n \div 2

MaxPool2d(s) ==
    IF PoolOut(s.H) < 1 \/ PoolOut(s.W) < 1 THEN Raise("RuntimeError: pool")
    ELSE Ok([C |-> s.C, H |-> PoolOut(s.H), W |-> PoolOut(s.W)])

\* ConvTranspose2d(cin, cout, 2, 2): (n - 1) * 2 + 2 = 2 n.
ConvTranspose2dForward(layer, s) ==
    IF s.C # layer.cin THEN Raise("RuntimeError: channels")
    ELSE Ok([C |-> layer.cout, H |-> 2 * s.H, W |-> 2 * s.W])

\* torch.cat([a, b], dim=1)
Cat(a, b) ==
    IF a.H # b.H \/ a.W # b.W THEN Raise("RuntimeError: cat")
    ELSE Ok([C |-> a.C + b.C, H |-> a.H, W |-> a.W])

(***************************************************************************)
(* GSRNet.__init__ (src/model.py 153-199)                                 *)
(***************************************************************************)
MaxScales == 3
MaxChan   == 3
MaxHeads  == 2
MaxDim    == 8
ConvDepth == 2

WindowSizes   == {<<1, 1>>, <<2, 2>>, <<2, 1>>}
UpsampleModes == {"conv_transpose", "bilinear", "bicubic"}
DepthLists    == UNION {[1..n -> {ConvDepth}] : n \in 1..MaxScales}
ChannelLists  == UNION {[1..n -> 1..MaxChan] : n \in 1..MaxScales}

Configs ==
    [window_size : WindowSizes,
     num_head : 1..MaxHeads,
     num_channels_list : ChannelLists,
     num_conv_down_layers_list : DepthLists,
     num_conv_up_layers_list : DepthLists,
     upsample_mode : UpsampleModes]

\* Line 166: the assert on the three list lengths.
ListLengthsUnchecked(c) == TRUE
ListLengthsAgree(c) ==
    /\ Len(c.num_channels_list) = Len(c.num_conv_down_layers_list)
    /\ Len(c.num_conv_down_layers_list) = Len(c.num_conv_up_layers_list)

\* Lines 201-208.
get_upsample_layer(upsample_mode, num_channels_in, num_channels_out) ==
    IF upsample_mode = "conv_transpose"
        THEN [status |-> "ok", raised |-> None, kind |-> "ConvTranspose2d",
              cin |-> num_channels_in, cout |-> num_channels_out]
    ELSE IF upsample_mode = "bilinear"
        \* nn.Sequential is given one list, which is no Module
        THEN [status |-> "raised", raised |-> "TypeError: Sequential",
              kind |-> None, cin |-> num_channels_in, cout |-> num_channels_out]
    ELSE [status |-> "raised", raised |-> "ValueError: upsample",
          kind |-> None, cin |-> num_channels_in, cout |-> num_channels_out]

InitRaise(e) == [status |-> "raised", raised |-> e]

\* The first entry of a list of construction results that raised.
FirstRaised(rs) ==
    rs[CHOOSE n \in 1..Len(rs) :
          rs[n].status # "ok" /\ \A m \in 1..(n - 1) : rs[m].status = "ok"].raised

GSRNetInit(c) ==
    LET ch   == c.num_channels_list
        down == c.num_conv_down_layers_list
        up   == c.num_conv_up_layers_list
        L    == Len(ch)                                           \* line 164
        blocks == [n \in 1..L |->                                 \* lines 184-186
                     CrossAttentionBlockInit(c.window_size, PyAt(ch, n - 1), c.num_head)]
        \* range(L-2, -1, -1): the layer appended k-th (k = 0, 1, ..) is for
        \* i = L-2-k, and list position n is k + 1
        ups == [n \in 1..(L - 1) |->                              \* lines 189-191
                  get_upsample_layer(c.upsample_mode,
                                     PyAt(ch, (L - 1 - n) + 1), PyAt(ch, L - 1 - n))]
    IN
    IF ~ListLengthsAgree(c) THEN InitRaise("AssertionError")      \* line 166
    ELSE IF ~PyInRange(down, 0) THEN InitRaise("IndexError")      \* line 168
    ELSE IF \E n \in 1..(L - 1) : ~PyInRange(down, n)             \* line 174
        THEN InitRaise("IndexError")
    ELSE IF \E n \in 1..L : blocks[n].status # "ok"               \* line 186
        THEN InitRaise(FirstRaised(blocks))
    ELSE IF ~PyInRange(up, -1) THEN InitRaise("IndexError")       \* line 188
    ELSE IF \E n \in 1..(L - 1) : ups[n].status # "ok"            \* line 191
        THEN InitRaise(FirstRaised(ups))
    ELSE IF \E n \in 1..(L - 1) : ~PyInRange(up, L - 1 - n)       \* line 194
        THEN InitRaise("IndexError")
    ELSE
        [status |-> "ok", raised |-> None,
         window_size |-> c.window_size,
         num_channels_list |-> ch,
         upsample_mode |-> c.upsample_mode,
         num_unet_layers |-> L,
         top_down_conv_ir |-> ConvBlock(1, PyAt(ch, 0), PyAt(down, 0)),
         top_down_conv_vi |-> ConvBlock(3, PyAt(ch, 0), PyAt(down, 0)),
         down_conv_list |-> [n \in 1..(L - 1) |->                 \* i = n
                               ConvBlock(PyAt(ch, n - 1), PyAt(ch, n), PyAt(down, n))],
         cross_attention_blocks |-> blocks,
         bottom_up_conv |-> ConvBlock(PyAt(ch, -1), PyAt(ch, -1), PyAt(up, -1)),
         up_sample_list |-> ups,
         up_conv_list |-> [n \in 1..(L - 1) |->                   \* i = L-1-n
                             ConvBlock(2 * PyAt(ch, L - 1 - n), PyAt(ch, L - 1 - n),
                                       PyAt(up, L - 1 - n))],
         proj |-> [cin |-> PyAt(ch, 0), cout |-> 1]]

(***************************************************************************)
(* GSRNet.forward (src/model.py 210-241), one action per loop iteration.  *)
(* x, y, z are the shapes of the tensors of those names; res_list holds   *)
(* for each skip its scale, shape and offset; block_log, for each call of *)
(* a CrossAttentionBlock, the scale, the H x W handed to window_partition *)
(* and the offset of what it returned; cat_log what each decoder step     *)
(* concatenated.                                                          *)
(***************************************************************************)
InitNet ==
    /\ cfg = [status |-> None]
    /\ net = [status |-> None]
    /\ pc = "new"
    /\ raised = None
    /\ i = 0
    /\ original_x = NoShape /\ x = NoShape /\ y = NoShape /\ z = NoShape
    /\ res_list = <<>> /\ block_log = <<>> /\ cat_log = <<>>
    /\ LoadIdle /\ AttnIdle /\ EvalIdle

\* model = GSRNet(...)
Construct ==
    /\ pc = "new"
    /\ \E c \in Configs :
        /\ cfg' = c
        /\ net' = GSRNetInit(c)
    /\ pc' = IF net'.status = "ok" THEN "constructed" ELSE "failed"
    /\ raised' = net'.raised
    /\ UNCHANGED <<i, original_x, x, y, z, res_list, block_log, cat_log,
                   loadVars, attnVars, evalVars>>

Fail(e) ==
    /\ pc' = "raised"
    /\ raised' = e

\* Lines 211-218: the low-resolution image is resized to the guide's H x W,
\* then each stream goes through its first ConvBlock.
ForwardStart ==
    /\ pc = "constructed"
    /\ \E H \in 1..MaxDim, W \in 1..MaxDim :
       LET x0 == [C |-> 1, H |-> H, W |-> W]
           y0 == [C |-> 3, H |-> H, W |-> W]
           cx == ConvForward(net.top_down_conv_ir, x0)
           cy == ConvForward(net.top_down_conv_vi, y0)
       IN  /\ original_x' = x0
           /\ x' = cx.v /\ y' = cy.v
           /\ pc' = "down" /\ i' = 0
    /\ UNCHANGED <<cfg, net, raised, z, res_list, block_log, cat_log,
                   loadVars, attnVars, evalVars>>

BlockCall(scale, r) ==
    [scale |-> scale, H |-> x.H, W |-> x.W, returned |-> r.status = "ok", off |-> r.off]

\* Lines 219-225, iteration i of the downward loop.
DownStep ==
    /\ pc = "down"
    /\ i < net.num_unet_layers - 1
    /\ LET r  == CrossAttentionBlockForward(PyAt(net.cross_attention_blocks, i), x, y)
           px == MaxPool2d(x)
           py == MaxPool2d(y)
           cx == ConvForward(PyAt(net.down_conv_list, i), px.v)
           cy == ConvForward(PyAt(net.down_conv_list, i), py.v)
       IN  /\ block_log' = Append(block_log, BlockCall(i, r))
           /\ IF r.status # "ok"
                 THEN Fail(r.raised) /\ UNCHANGED <<i, x, y, res_list>>
              ELSE
              /\ res_list' = Append(res_list,                       \* line 221
                     [scale |-> i, C |-> r.x.C, H |-> r.x.H, W |-> r.x.W, off |-> r.off])
              /\ IF px.status # "ok" \/ py.status # "ok"
                    THEN Fail(px.raised) /\ UNCHANGED <<i, x, y>>
                 ELSE IF cx.status # "ok" \/ cy.status # "ok"
                    THEN Fail(cx.raised) /\ UNCHANGED <<i, x, y>>
                 ELSE /\ x' = cx.v /\ y' = cy.v
                      /\ i' = i + 1
                      /\ UNCHANGED <<pc, raised>>
    /\ UNCHANGED <<cfg, net, original_x, z, cat_log, loadVars, attnVars, evalVars>>

\* Lines 227-231: the deepest block and the bottleneck ConvBlock.
Bottom ==
    /\ pc = "down"
    /\ i = net.num_unet_layers - 1
    /\ LET r  == CrossAttentionBlockForward(PyAt(net.cross_attention_blocks, -1), x, y)
           cz == ConvForward(net.bottom_up_conv, r.x)
       IN  /\ block_log' = Append(block_log, BlockCall(i, r))
           /\ IF r.status # "ok"
                 THEN Fail(r.raised) /\ UNCHANGED <<i, z>>
              ELSE IF cz.status # "ok"
                 THEN Fail(cz.raised) /\ UNCHANGED <<i, z>>
              ELSE /\ z' = cz.v
                   /\ pc' = "up" /\ i' = 0
                   /\ UNCHANGED raised
    /\ UNCHANGED <<cfg, net, original_x, x, y, res_list, cat_log,
                   loadVars, attnVars, evalVars>>

\* res_list[-i-1] of line 235.
SkipIndexForward(n) == n
SkipIndex(n) == -n - 1

\* Lines 233-236, iteration i of the upward loop.
UpStep ==
    /\ pc = "up"
    /\ i < net.num_unet_layers - 1
    /\ LET u    == ConvTranspose2dForward(PyAt(net.up_sample_list, i), z)
           skip == PyAt(res_list, SkipIndex(i))
           c    == Cat(u.v, skip)
           conv == PyAt(net.up_conv_list, i)
           cz   == ConvForward(conv, c.v)
       IN  IF u.status # "ok"
              THEN Fail(u.raised) /\ UNCHANGED <<i, z, cat_log>>
           ELSE
           /\ cat_log' = Append(cat_log,
                  [step |-> i, skip |-> skip.scale, zC |-> u.v.C, skipC |-> skip.C,
                   convIn |-> conv.cin])
           /\ IF c.status # "ok"
                 THEN Fail(c.raised) /\ UNCHANGED <<i, z>>
              ELSE IF cz.status # "ok"
                 THEN Fail(cz.raised) /\ UNCHANGED <<i, z>>
              ELSE /\ z' = cz.v
                   /\ i' = i + 1
                   /\ UNCHANGED <<pc, raised>>
    /\ UNCHANGED <<cfg, net, original_x, x, y, res_list, block_log,
                   loadVars, attnVars, evalVars>>

\* Lines 238-241: the 1x1 projection, tanh, and the residual sum.
Finish ==
    /\ pc = "up"
    /\ i = net.num_unet_layers - 1
    /\ LET p == ConvForward(net.proj, z)
       IN  IF p.status # "ok"
              THEN Fail(p.raised) /\ UNCHANGED z
           ELSE IF p.v.H # original_x.H \/ p.v.W # original_x.W
              THEN Fail("RuntimeError: add") /\ UNCHANGED z
           ELSE /\ z' = p.v
                /\ pc' = "done"
                /\ UNCHANGED raised
    /\ UNCHANGED <<cfg, net, i, original_x, x, y, res_list, block_log, cat_log,
                   loadVars, attnVars, evalVars>>

NextNet ==
    \/ Construct
    \/ ForwardStart
    \/ DownStep
    \/ Bottom
    \/ UpStep
    \/ Finish

SpecNet == InitNet /\ [][NextNet]_vars

(***************************************************************************)
(* Properties of GSRNet, checked under SpecNet.                           *)
(***************************************************************************)
Constructing == pc = "new"
InForward == pc \in {"down", "up", "done", "raised"}
NumScales == Len(cfg.num_channels_list)
Pow2(n) == IF n <= 0 THEN 1 ELSE 2 ^ n
RecognizedModes == {"conv_transpose", "bilinear"}

LengthsEqual ==
    /\ Len(cfg.num_channels_list) = Len(cfg.num_conv_down_layers_list)
    /\ Len(cfg.num_channels_list) = Len(cfg.num_conv_up_layers_list)
AllChannelsDivisible ==
    \A n \in 1..NumScales : cfg.num_channels_list[n] % cfg.num_head = 0

\* C2: constructing GSRNet with lists whose lengths are not all equal ends in
\* an error during construction: no network exists and no forward can start.
C2_MismatchedListsFail ==
    (~Constructing /\ ~LengthsEqual) =>
        /\ net.status = "raised"
        /\ pc = "failed"

C2_Witness ==
    /\ pc = "failed"
    /\ raised = "AssertionError"
    /\ Len(cfg.num_channels_list) = 3
    /\ Len(cfg.num_conv_down_layers_list) = 2

\* C3: a channel count that the head count does not divide, at any scale,
\* makes construction raise; the divisibility error is raised only then; and
\* a forward pass only ever runs with C = num_head * (C // num_head).
C3_HeadsMustDivide ==
    ~Constructing =>
        /\ ~AllChannelsDivisible => net.status = "raised"
        /\ raised = "ValueError: heads" => ~AllChannelsDivisible
        /\ InForward =>
              \A n \in 1..NumScales :
                  cfg.num_head * (cfg.num_channels_list[n] \div cfg.num_head)
                      = cfg.num_channels_list[n]

C3_Witness ==
    /\ pc = "failed"
    /\ raised = "ValueError: heads"
    /\ LengthsEqual
    /\ NumScales >= 2
    /\ cfg.num_channels_list[1] % cfg.num_head = 0

\* C4: for any number of scales, constructing GSRNet with an upsample mode
\* that is not one of the recognized values raises an error at construction.
C4_UnrecognizedModeRejected ==
    (~Constructing /\ cfg.upsample_mode \notin RecognizedModes) =>
        net.status = "raised"

\* C5: with either recognized upsample mode and an otherwise valid
\* configuration, construction succeeds and builds L-1 upsample steps, the
\* one for scale i mapping channels[i+1] to channels[i].
C5_BothModesConstruct ==
    (/\ ~Constructing
     /\ cfg.upsample_mode \in RecognizedModes
     /\ LengthsEqual
     /\ AllChannelsDivisible) =>
        /\ net.status = "ok"
        /\ Len(net.up_sample_list) = NumScales - 1
        /\ \A k \in 0..(NumScales - 2) :
              /\ PyAt(net.up_sample_list, k).cin
                    = PyAt(cfg.num_channels_list, NumScales - 2 - k + 1)
              /\ PyAt(net.up_sample_list, k).cout
                    = PyAt(cfg.num_channels_list, NumScales - 2 - k)

AllPartitionable ==
    \A n \in 1..Len(block_log) :
        /\ block_log[n].H % cfg.window_size[1] = 0
        /\ block_log[n].W % cfg.window_size[2] = 0

\* C7 as claimed: a guide image whose H and W are multiples of the window size
\* gives every scale a feature map whose H and W are multiples of it.
C7_InputMultipleSuffices ==
    (/\ InForward
     /\ original_x.H % cfg.window_size[1] = 0
     /\ original_x.W % cfg.window_size[2] = 0) => AllPartitionable

\* C7 as amended: a guide image whose H and W are multiples of 2^(L-1) times
\* the window size gives every scale a feature map whose H and W are
\* multiples of the window size.
C7_ScaledMultipleSuffices ==
    (/\ InForward
     /\ original_x.H % (cfg.window_size[1] * Pow2(NumScales - 1)) = 0
     /\ original_x.W % (cfg.window_size[2] * Pow2(NumScales - 1)) = 0) =>
        AllPartitionable

C7_Witness ==
    /\ pc = "up"
    /\ NumScales = 3
    /\ cfg.window_size = <<2, 1>>
    /\ original_x.H = 8 /\ original_x.W = 4
    /\ Len(block_log) = 3
    /\ block_log[3].H = 2 /\ block_log[3].W = 1

\* C8: the encoder stores one skip per scale 0..L-2 in increasing order; the
\* decoder's step k concatenates skip L-2-k and no other, with the upsampled
\* tensor and the skip both of channels[L-2-k] channels and the ConvBlock that
\* follows taking 2*channels[L-2-k]; a finished pass has used each skip once.
C8_SkipsConsumedInReverse ==
    InForward =>
        /\ Len(res_list) <= NumScales - 1
        /\ \A n \in 1..Len(res_list) : res_list[n].scale = n - 1
        /\ pc \in {"up", "done"} => Len(res_list) = NumScales - 1
        /\ \A n \in 1..Len(cat_log) :
              LET k == n - 1
                  c == PyAt(cfg.num_channels_list, NumScales - 2 - k)
              IN  /\ cat_log[n].step = k
                  /\ cat_log[n].skip = NumScales - 2 - k
                  /\ cat_log[n].zC = c
                  /\ cat_log[n].skipC = c
                  /\ cat_log[n].convIn = 2 * c
        /\ pc = "done" => Len(cat_log) = NumScales - 1

C8_Witness ==
    /\ pc = "done"
    /\ NumScales = 3
    /\ cfg.num_channels_list = <<1, 2, 3>>
    /\ Len(cat_log) = 2
    /\ cat_log[1].skip = 1 /\ cat_log[2].skip = 0

\* C9: whatever shift a CrossAttentionBlock applies is undone before it
\* returns: its outputs have offset (0, 0) against its inputs.
C9_BlockKeepsAlignment ==
    \A n \in 1..Len(block_log) :
        block_log[n].returned => block_log[n].off = <<0, 0>>

(***************************************************************************)
(* A WindowCrossAttention unit on its own: constructed, then called once  *)
(* with two window batches of any shapes.                                 *)
(***************************************************************************)
MaxB == 2
MaxN == 4

Batches == [B : 1..MaxB, N : 1..MaxN, C : 1..MaxChan]

InitAttn ==
    /\ unit = [status |-> None]
    /\ call = [status |-> None]
    /\ result = [status |-> None]
    /\ LoadIdle /\ NetIdle /\ EvalIdle

AttnConstruct ==
    /\ unit.status = None
    /\ \E ws \in WindowSizes, c \in 1..MaxChan, h \in 1..MaxHeads :
          unit' = WindowCrossAttentionInit(ws, c, h)
    /\ UNCHANGED <<call, result, loadVars, netVars, evalVars>>

\* forward reads self and assigns nothing to it.
AttnForward ==
    /\ unit.status = "ok"
    /\ call.status = None
    /\ \E xs \in Batches, ys \in Batches :
          /\ call' = [status |-> "called", x |-> xs, y |-> ys, unit |-> unit]
          /\ result' = WindowCrossAttentionForward(unit, xs, ys)
    /\ UNCHANGED <<unit, loadVars, netVars, evalVars>>

NextAttn == AttnConstruct \/ AttnForward
SpecAttn == InitAttn /\ [][NextAttn]_vars

Called == call.status = "called"
InputsAgree ==
    /\ call.x.B = call.y.B /\ call.x.N = call.y.N /\ call.x.C = call.y.C
    /\ call.x.C = unit.num_channels
RejectedBeforeAnyWork ==
    /\ result.status = "raised"
    /\ result.stage = "check"
    /\ result.out1 = NoBatch /\ result.out2 = NoBatch
    /\ unit = call.unit
OutputsHaveInputShape ==
    /\ result.status = "ok"
    /\ result.out1 = call.x
    /\ result.out2 = call.y
    /\ unit = call.unit

\* C6 as claimed: a call whose inputs differ in B_, N or C, or whose C is not
\* the unit's channel count, raises before anything is computed and leaves
\* the unit as it was; a call whose inputs agree returns two outputs of the
\* input shape.
C6_ForwardShapeContract ==
    Called =>
        /\ ~InputsAgree => RejectedBeforeAnyWork
        /\ InputsAgree => OutputsHaveInputShape

\* C6 as amended: the outputs of the input shape are promised only when N is
\* also the unit's window-element count.
C6_ForwardShapeContractWindowed ==
    Called =>
        /\ ~InputsAgree => RejectedBeforeAnyWork
        /\ (InputsAgree /\ call.x.N = unit.num_window_elements)
              => OutputsHaveInputShape

C6_Witness ==
    /\ Called
    /\ result.status = "ok"
    /\ unit.num_heads = 2 /\ unit.num_channels = 2
    /\ unit.num_window_elements = 4
    /\ call.x = [B |-> 2, N |-> 4, C |-> 2]

(***************************************************************************)
(* The evaluation loop (src/eval.py 38-57).  The evaluation set has evalN *)
(* samples, named 0 .. evalN-1; eval_loader cuts it into batches of       *)
(* test_batch_size, the last one shorter when evalN is no multiple.  A    *)
(* prediction is one number: below, at the ends of, or above [0, 1].      *)
(***************************************************************************)
MaxEval  == 3
MaxBatch == 3

PredValues == {-1, 0, 1, 2}
PixelLow  == 0
PixelHigh == 1

ceildiv(a, b) == (a + b - 1) \div b
\* eval_loader.__len__()
NumBatches == ceildiv(evalN, test_batch_size)
BatchLen(b) == Min(test_batch_size, evalN - b * test_batch_size)

\* torch.clamp(pred_hr, 0, 1)
clamp(v, lo, hi) == Max(lo, Min(hi, v))

InitEval ==
    /\ evalN \in 0..MaxEval
    /\ test_batch_size \in 1..MaxBatch
    /\ idx = 0
    /\ pred_raw = <<>>
    /\ metric_log = <<>>
    /\ write_log = <<>>
    /\ evalPc = "loop"
    /\ LoadIdle /\ NetIdle /\ AttnIdle

\* Lines 39-52: one batch.  The inner loop runs i over range(test_batch_size)
\* and pred_hr[i] raises IndexError at the first i the batch does not have;
\* the images written before that stay written.
EvalBatch ==
    /\ evalPc = "loop"
    /\ idx < NumBatches
    /\ \E preds \in [1..BatchLen(idx) -> PredValues] :
        LET pred_hr == [n \in 1..BatchLen(idx) |-> clamp(preds[n], PixelLow, PixelHigh)]
            first   == idx * test_batch_size
            writes  == [n \in 1..BatchLen(idx) |->
                           [name |-> first + n - 1, value |-> pred_hr[n]]]
        IN  /\ pred_raw' = pred_raw \o preds
            /\ metric_log' = metric_log \o pred_hr
            /\ write_log' = write_log \o writes
            /\ IF test_batch_size > BatchLen(idx)
                  THEN evalPc' = "IndexError" /\ UNCHANGED idx
                  ELSE idx' = idx + 1 /\ UNCHANGED evalPc
    /\ UNCHANGED <<evalN, test_batch_size, loadVars, netVars, attnVars>>

\* Lines 54-57: the averages.
EvalFinish ==
    /\ evalPc = "loop"
    /\ idx = NumBatches
    /\ evalPc' = IF NumBatches = 0 THEN "ZeroDivisionError" ELSE "done"
    /\ UNCHANGED <<evalN, test_batch_size, idx, pred_raw, metric_log, write_log,
                   loadVars, netVars, attnVars>>

NextEval == EvalBatch \/ EvalFinish
SpecEval == InitEval /\ [][NextEval]_vars

\* C10: for any evaluation set and batch size the loop indexes only samples
\* the batch has, ends having written exactly one image per sample under the
\* sample's name, and clamps every prediction to [0, 1] before the metrics
\* and before writing.
C10_EvalLoopCompletes ==
    /\ evalPc # "IndexError"
    /\ evalPc = "done" =>
          \A s \in 0..(evalN - 1) :
              Cardinality({n \in 1..Len(write_log) : write_log[n].name = s}) = 1
    /\ \A n \in 1..Len(metric_log) :
          metric_log[n] >= PixelLow /\ metric_log[n] <= PixelHigh
    /\ \A n \in 1..Len(write_log) :
          write_log[n].value >= PixelLow /\ write_log[n].value <= PixelHigh

====
